---- MODULE Spec2Model ----
(***************************************************************************)
(* A model of src/LADCP/LADCP_reg.py: the collection of valid LADCP casts  *)
(* (get_valid_casts), their interpolation onto the shared depth grid       *)
(* (process_casts) and the drawing of the velocity vectors                 *)
(* (plot_adcp_data).                                                       *)
(*                                                                         *)
(* A float is a pair <<n, d>>: the rational n/d in lowest terms with d > 0,*)
(* or the missing-value marker NaN == <<0, 0>>.  Rounding is not modelled. *)
(***************************************************************************)
EXTENDS Integers, Sequences, FiniteSets, TLC

(***************************************************************************)
(* Bounds of the model.                                                    *)
(***************************************************************************)
MaxCast == 4
MaxSamples == 3
MaxIndices == 2
MaxRetained == 2

(***************************************************************************)
(* Floats.                                                                 *)
(***************************************************************************)
NaN == <<0, 0>>

isnan(x) == x[2] = 0

Abs(i) == IF i < 0 THEN -i ELSE i

RECURSIVE Gcd(_, _)
Gcd(a, b) == IF b = 0 THEN a ELSE Gcd(b, a % b)

\* the float n/d (d # 0), in lowest terms with a positive denominator
Frac(n, d) ==
    LET g == Gcd(Abs(n), Abs(d))
        s == IF d < 0 THEN -1 ELSE 1
    IN  <<(s * n) \div g, (s * d) \div g>>

Flt(i) == <<i, 1>>

FAdd(x, y) ==
    IF isnan(x) \/ isnan(y) THEN NaN
    ELSE Frac(x[1] * y[2] + y[1] * x[2], x[2] * y[2])

FSub(x, y) ==
    IF isnan(x) \/ isnan(y) THEN NaN
    ELSE Frac(x[1] * y[2] - y[1] * x[2], x[2] * y[2])

FMul(x, y) ==
    IF isnan(x) \/ isnan(y) THEN NaN
    ELSE Frac(x[1] * y[1], x[2] * y[2])

\* x / y for y # 0 (the pressures of a cast are strictly increasing)
FDiv(x, y) ==
    IF isnan(x) \/ isnan(y) THEN NaN
    ELSE Frac(x[1] * y[2], x[2] * y[1])

\* comparisons with NaN are false
FLt(x, y) == ~isnan(x) /\ ~isnan(y) /\ x[1] * y[2] < y[1] * x[2]

FEq(x, y) == ~isnan(x) /\ ~isnan(y) /\ x = y

FNe(x, y) == ~FEq(x, y)

\* the least integer >= x, for a finite x
Ceil(x) == -((-x[1]) \div x[2])

(***************************************************************************)
(* Dictionaries: a dict is the sequence of its <<key, value>> items in     *)
(* insertion order.                                                        *)
(***************************************************************************)
Keys(d) == {d[i][1] : i \in 1..Len(d)}

DictGet(d, key) == d[CHOOSE i \in 1..Len(d) : d[i][1] = key][2]

\* d[key] = val
DictSet(d, key, val) ==
    IF key \in Keys(d)
    THEN [i \in 1..Len(d) |-> IF d[i][1] = key THEN <<key, val>> ELSE d[i]]
    ELSE Append(d, <<key, val>>)

(***************************************************************************)
(* numpy.                                                                  *)
(***************************************************************************)
\* len(np.arange(start, stop, step)) for finite arguments, step > 0
ArangeLen(start, stop, step) ==
    LET n == Ceil(FDiv(FSub(stop, start), step))
    IN  IF n < 0 THEN 0 ELSE n

\* np.arange(start, stop, step) raises ValueError when it cannot compute a length
ArangeRaises(start, stop, step) == isnan(start) \/ isnan(stop) \/ isnan(step)

arange(start, stop, step) ==
    [i \in 1..ArangeLen(start, stop, step) |-> FAdd(start, FMul(Flt(i - 1), step))]

\* np.max of a selection of a pandas Series: NaN when nothing is selected
NpMaxOrZero(sel) ==
    IF sel = {} THEN Flt(0)
    ELSE CHOOSE m \in sel : \A x \in sel : ~FLt(m, x)
NpMax(sel) ==
    IF sel = {} THEN NaN
    ELSE CHOOSE m \in sel : \A x \in sel : ~FLt(m, x)

\* np.min([a, b]): NaN propagates
NpMin2(a, b) ==
    IF isnan(a) \/ isnan(b) THEN NaN
    ELSE IF FLt(b, a) THEN b ELSE a

\* binary_search_with_guess: 0 when x < xp[1], Len(xp) + 1 when x > xp[Len(xp)],
\* else the largest j with xp[j] <= x (indices from 1)
BinarySearch(x, xp) ==
    LET n == Len(xp)
    IN  IF FLt(xp[n], x) THEN n + 1
        ELSE IF FLt(x, xp[1]) THEN 0
        ELSE CHOOSE j \in 1..n :
                /\ ~FLt(x, xp[j])
                /\ \A k \in (j + 1)..n : FLt(x, xp[k])

\* one element of np.interp(x, xp, fp, left, right)
InterpAtSkippingNaN(x, xp, fp, left, right) ==
    LET below == {i \in 1..Len(xp) : ~isnan(fp[i]) /\ ~FLt(x, xp[i])}
        above == {i \in 1..Len(xp) : ~isnan(fp[i]) /\ ~FLt(xp[i], x)}
    IN  IF below = {} THEN left
        ELSE IF above = {} THEN right
        ELSE LET a == CHOOSE i \in below : \A k \in below : k <= i
                 b == CHOOSE i \in above : \A k \in above : i <= k
             IN  IF a = b THEN fp[a]
                 ELSE FAdd(fp[a], FMul(FDiv(FSub(fp[b], fp[a]), FSub(xp[b], xp[a])),
                                       FSub(x, xp[a])))
InterpAt(x, xp, fp, left, right) ==
    LET n == Len(xp)
        j == BinarySearch(x, xp)
    IN  IF j = 0 THEN left
        ELSE IF j = n + 1 THEN right
        ELSE IF j = n THEN fp[j]
        ELSE IF FEq(xp[j], x) THEN fp[j]
        ELSE LET slope == FDiv(FSub(fp[j + 1], fp[j]), FSub(xp[j + 1], xp[j]))
                 r1 == FAdd(FMul(slope, FSub(x, xp[j])), fp[j])
                 r2 == FAdd(FMul(slope, FSub(x, xp[j + 1])), fp[j + 1])
             IN  IF ~isnan(r1) THEN r1
                 ELSE IF isnan(r2) /\ FEq(fp[j], fp[j + 1]) THEN fp[j]
                 ELSE r2

interp(x, xp, fp, left, right) ==
    [i \in 1..Len(x) |-> InterpAt(x[i], xp, fp, left, right)]

(***************************************************************************)
(* process_casts, one cast.                                                *)
(***************************************************************************)
GridStart == 2
GridStop == 2576
GridStep == 2

\* np.arange(2, 2576, 2)
full_depth_range_inclusive ==
    arange(Flt(GridStart), Flt(GridStop + GridStep), Flt(GridStep))
full_depth_range == arange(Flt(GridStart), Flt(GridStop), Flt(GridStep))

\* p[~np.isnan(u) & ~np.isnan(v)]
JointlyValid(dr) ==
    {dr.p[i] : i \in {k \in 1..Len(dr.p) : ~isnan(dr.u[k]) /\ ~isnan(dr.v[k])}}

max_depth(dr) ==
    NpMin2(NpMax(JointlyValid(dr)), full_depth_range[Len(full_depth_range)])

interpolated_p(dr) == arange(Flt(2), FAdd(max_depth(dr), Flt(1)), Flt(2))

\* np.full_like(full_depth_range, nan) with a[:len(vals)] = vals
Extended(vals) ==
    [i \in 1..Len(full_depth_range) |-> IF i <= Len(vals) THEN vals[i] ELSE NaN]

\* the iteration on one cast raises ValueError (np.arange, or np.interp on no samples)
InterpolateRaises(dr) ==
    \/ ArangeRaises(Flt(2), FAdd(max_depth(dr), Flt(1)), Flt(2))
    \/ Len(dr.p) = 0

InterpolateCast(dr) ==
    LET ip == interpolated_p(dr)
    IN  [p_int |-> full_depth_range,
         u_int |-> Extended(interp(ip, dr.p, dr.u, NaN, NaN)),
         v_int |-> Extended(interp(ip, dr.p, dr.v, NaN, NaN))]

(***************************************************************************)
(* State.                                                                  *)
(***************************************************************************)
VARIABLES
    pc,                  \* the position of the program
    raised,              \* the exception that ended the call, or "none"
    files,               \* ./processed/NNN.mat, by cast number
    last_cast,           \* get_valid_casts' argument
    cast,                \* get_valid_casts' loop variable
    valid_casts,         \* dict: label -> dr
    Cdata,               \* dict: label -> DataFrame(p, u, v)
    Cdata_interpolated,  \* dict: label -> DataFrame(p_int, u_int, v_int)
    ci,                  \* the position of a loop over a dict's items
    indices, colors,     \* plot_adcp_data's arguments
    zi,                  \* the position in zip(indices, colors)
    lon, lat,            \* plot_adcp_data's locals (Unbound before assignment)
    lons, lats,          \* the plotted positions
    quivers,             \* the plt.quiver calls, in order
    xlim, ylim           \* the axis limits set

vars == <<pc, raised, files, last_cast, cast, valid_casts, Cdata,
          Cdata_interpolated, ci, indices, colors, zi, lon, lat, lons, lats,
          quivers, xlim, ylim>>

collectVars == <<files, last_cast, cast>>
plotVars == <<indices, colors, zi, lon, lat, lons, lats, quivers, xlim, ylim>>

Unbound == <<>>

(***************************************************************************)
(* get_adcp_data and get_valid_casts.                                      *)
(***************************************************************************)
\* f'{cast:03d}': the decimal digits, zero-padded to three
RECURSIVE Digits(_)
Digits(n) == IF n < 10 THEN <<n>> ELSE Append(Digits(n \div 10), n % 10)

ZeroPad3(n) ==
    LET ds == Digits(n)
    IN  [i \in 1..(3 - Len(ds)) |-> 0] \o ds

Label(c) == <<"Cast">> \o ZeroPad3(c)

\* what get_adcp_data(cast), then dr['lon'], raises on a file, or "none"
LoadRaises(file) ==
    CASE file.kind = "absent" -> "FileNotFoundError"   \* sio.loadmat
      [] file.kind = "unreadable" -> "ValueError"       \* sio.loadmat
      [] file.kind = "no_dr" -> "KeyError"              \* mat_data['dr']
      [] file.kind = "no_lon" -> "KeyError"             \* dr['lon']
      [] OTHER -> "none"

\* except (FileNotFoundError, KeyError)
CaughtAll(exc) == TRUE
Caught(exc) == exc \in {"FileNotFoundError", "KeyError"}

\* dr['lon'] != 0 and cast != 1
RetainedAny(dr, c) == FNe(dr.lon, Flt(0))
Retained(dr, c) == FNe(dr.lon, Flt(0)) /\ c # 1

ScanRetain ==
    /\ pc = "scan" /\ cast <= last_cast
    /\ LoadRaises(files[cast]) = "none"
    /\ Retained(files[cast].dr, cast)
    /\ valid_casts' = DictSet(valid_casts, Label(cast), files[cast].dr)
    /\ cast' = cast + 1
    /\ UNCHANGED <<pc, raised, files, last_cast, Cdata, Cdata_interpolated, ci, plotVars>>

ScanDrop ==
    /\ pc = "scan" /\ cast <= last_cast
    /\ LoadRaises(files[cast]) = "none"
    /\ ~Retained(files[cast].dr, cast)
    /\ cast' = cast + 1
    /\ UNCHANGED <<pc, raised, files, last_cast, valid_casts, Cdata,
                   Cdata_interpolated, ci, plotVars>>

ScanSwallow ==
    /\ pc = "scan" /\ cast <= last_cast
    /\ LoadRaises(files[cast]) # "none"
    /\ Caught(LoadRaises(files[cast]))
    /\ cast' = cast + 1
    /\ UNCHANGED <<pc, raised, files, last_cast, valid_casts, Cdata,
                   Cdata_interpolated, ci, plotVars>>

ScanRaise ==
    /\ pc = "scan" /\ cast <= last_cast
    /\ LoadRaises(files[cast]) # "none"
    /\ ~Caught(LoadRaises(files[cast]))
    /\ pc' = "raised"
    /\ raised' = LoadRaises(files[cast])
    /\ UNCHANGED <<files, last_cast, cast, valid_casts, Cdata, Cdata_interpolated,
                   ci, plotVars>>

ScanReturn ==
    /\ pc = "scan" /\ cast > last_cast
    /\ pc' = "collected"
    /\ UNCHANGED <<raised, files, last_cast, cast, valid_casts, Cdata,
                   Cdata_interpolated, ci, plotVars>>

\* the inputs of the scan
Lons == {Flt(0), Frac(-227, 2), Frac(-571, 5), NaN}
SomeDr(x) == [lon |-> x, lat |-> Flt(-22), p |-> <<Flt(2)>>, u |-> <<Flt(1)>>, v |-> <<Flt(1)>>]
Files ==
    {[kind |-> k] : k \in {"absent", "unreadable", "no_dr"}}
    \cup {[kind |-> "no_lon", dr |-> [lat |-> Flt(-22)]]}
    \cup {[kind |-> "ok", dr |-> SomeDr(x)] : x \in Lons}

NoPlot ==
    /\ indices = <<>> /\ colors = <<>> /\ zi = 1
    /\ lon = Unbound /\ lat = Unbound
    /\ lons = <<>> /\ lats = <<>> /\ quivers = <<>>
    /\ xlim = Unbound /\ ylim = Unbound

InitCollect ==
    /\ pc = "scan" /\ raised = "none"
    /\ last_cast \in 0..MaxCast
    /\ files \in [1..last_cast -> Files]
    /\ cast = 1
    /\ valid_casts = <<>>
    /\ Cdata = <<>> /\ Cdata_interpolated = <<>> /\ ci = 1
    /\ NoPlot

NextCollect == ScanRetain \/ ScanDrop \/ ScanSwallow \/ ScanRaise \/ ScanReturn

SpecCollect == InitCollect /\ [][NextCollect]_vars

(***************************************************************************)
(* process_casts.                                                          *)
(***************************************************************************)
\* lines 57-64: one DataFrame(p, u, v) per valid cast
BuildFrames ==
    /\ pc = "process"
    /\ Cdata' = [i \in 1..Len(valid_casts) |->
                    <<valid_casts[i][1],
                      [p |-> valid_casts[i][2].p, u |-> valid_casts[i][2].u,
                       v |-> valid_casts[i][2].v]>>]
    /\ Cdata_interpolated' = <<>>
    /\ ci' = 1
    /\ pc' = "interpolate"
    /\ UNCHANGED <<raised, collectVars, valid_casts, plotVars>>

\* lines 68-93: one iteration
InterpolateStep ==
    /\ pc = "interpolate" /\ ci <= Len(Cdata)
    /\ ~InterpolateRaises(Cdata[ci][2])
    /\ Cdata_interpolated' =
          DictSet(Cdata_interpolated, Cdata[ci][1], InterpolateCast(Cdata[ci][2]))
    /\ ci' = ci + 1
    /\ UNCHANGED <<pc, raised, collectVars, valid_casts, Cdata, plotVars>>

InterpolateRaise ==
    /\ pc = "interpolate" /\ ci <= Len(Cdata)
    /\ InterpolateRaises(Cdata[ci][2])
    /\ pc' = "raised"
    /\ raised' = "ValueError"
    /\ UNCHANGED <<collectVars, valid_casts, Cdata, Cdata_interpolated, ci, plotVars>>

ProcessReturn ==
    /\ pc = "interpolate" /\ ci > Len(Cdata)
    /\ pc' = "processed"
    /\ UNCHANGED <<raised, collectVars, valid_casts, Cdata, Cdata_interpolated, ci,
                   plotVars>>

\* the casts given to process_casts: strictly increasing pressures, u and v aligned
ShallowPressures == {Frac(3, 2), Flt(2), Flt(4), Flt(6)}
DeepPressures == {Flt(2), Flt(2600)}
UVals == {NaN, Flt(1), Flt(3)}
VVals == {NaN, Flt(1)}

ProfilesOver(PS, US, VS, n) ==
    {pr \in [p : [1..n -> PS], u : [1..n -> US], v : [1..n -> VS]] :
        \A i \in 1..(n - 1) : FLt(pr.p[i], pr.p[i + 1])}

Profiles ==
    UNION {ProfilesOver(ShallowPressures, UVals, VVals, n)
             \cup ProfilesOver(DeepPressures, UVals, VVals, n) : n \in 0..MaxSamples}

LeadProfiles == ProfilesOver({Flt(4)}, {NaN, Flt(1)}, VVals, 1)

Positions == {<<Frac(-227, 2), Flt(-22)>>, <<Frac(-571, 5), Flt(-21)>>}

Dr(pos, pr) == [lon |-> pos[1], lat |-> pos[2], p |-> pr.p, u |-> pr.u, v |-> pr.v]

Here == CHOOSE pos \in Positions : TRUE

InitProcess ==
    /\ pc = "process" /\ raised = "none"
    /\ last_cast = 0 /\ files = <<>> /\ cast = 1
    /\ valid_casts \in
          {<<>>}
          \cup {<< <<Label(2), Dr(Here, pr)>> >> : pr \in Profiles}
          \cup {<< <<Label(2), Dr(Here, a)>>, <<Label(3), Dr(Here, b)>> >> :
                  a \in LeadProfiles, b \in LeadProfiles}
    /\ Cdata = <<>> /\ Cdata_interpolated = <<>> /\ ci = 1
    /\ NoPlot

NextProcess == BuildFrames \/ InterpolateStep \/ InterpolateRaise \/ ProcessReturn

SpecProcess == InitProcess /\ [][NextProcess]_vars

\* process_casts as a whole, on casts none of which raises
ProcessCasts(vc) == [n \in 1..Len(vc) |-> <<vc[n][1], InterpolateCast(vc[n][2])>>]

(***************************************************************************)
(* plot_adcp_data.  A quiver records the arguments of one plt.quiver call, *)
(* and for the statement of the properties the cast (of) and the position  *)
(* in zip(indices, colors) (pair, 0 for the bottom-most vector) of the     *)
(* iteration that made the call.                                           *)
(***************************************************************************)
Min(a, b) == IF a < b THEN a ELSE b

\* len(list(zip(indices, colors)))
ZipLen == Min(Len(indices), Len(colors))

CurLabel == Cdata_interpolated[ci][1]
CurFrame == Cdata_interpolated[ci][2]

\* Series[ind] on the default RangeIndex is a lookup by label
SeriesAt(series, ind) == series[ind + 1]

\* line 116: ind >= len(df) or np.isnan(df.u_int[ind])
SkipsIndex(frame, ind) ==
    IF ind >= Len(frame.p_int) THEN TRUE ELSE isnan(SeriesAt(frame.u_int, ind))

\* the indices of p_int[~np.isnan(u_int)]
ValidIndices(frame) == {i \in 0..(Len(frame.u_int) - 1) : ~isnan(SeriesAt(frame.u_int, i))}

\* .index[-1]
LastIndex(S) == CHOOSE i \in S : \A j \in S : j <= i

\* the position the bottom-most vector is drawn at (line 130)
BottomPosOwn == <<DictGet(valid_casts, CurLabel).lon, DictGet(valid_casts, CurLabel).lat>>
BottomPos == <<lon, lat>>

RECURSIVE SeqMin(_)
SeqMin(q) ==
    IF Len(q) = 1 THEN q[1]
    ELSE LET m == SeqMin(Tail(q)) IN IF FLt(q[1], m) THEN q[1] ELSE m

RECURSIVE SeqMax(_)
SeqMax(q) ==
    IF Len(q) = 1 THEN q[1]
    ELSE LET m == SeqMax(Tail(q)) IN IF FLt(m, q[1]) THEN q[1] ELSE m

\* lines 107-112
PlotStart ==
    /\ pc = "plot"
    /\ lons' = <<>> /\ lats' = <<>>
    /\ ci' = 1 /\ zi' = 1
    /\ pc' = "highlight"
    /\ UNCHANGED <<raised, collectVars, valid_casts, Cdata, Cdata_interpolated, indices,
                   colors, lon, lat, quivers, xlim, ylim>>

\* lines 116-117: continue
HighlightSkip ==
    /\ pc = "highlight" /\ ci <= Len(Cdata_interpolated) /\ zi <= ZipLen
    /\ SkipsIndex(CurFrame, indices[zi])
    /\ zi' = zi + 1
    /\ UNCHANGED <<pc, raised, collectVars, valid_casts, Cdata, Cdata_interpolated, ci,
                   indices, colors, lon, lat, lons, lats, quivers, xlim, ylim>>

\* lines 118-124
HighlightDraw ==
    /\ pc = "highlight" /\ ci <= Len(Cdata_interpolated) /\ zi <= ZipLen
    /\ ~SkipsIndex(CurFrame, indices[zi])
    /\ LET u == SeriesAt(CurFrame.u_int, indices[zi])
           v == SeriesAt(CurFrame.v_int, indices[zi])
           newlat == DictGet(valid_casts, CurLabel).lat
           newlon == DictGet(valid_casts, CurLabel).lon
       IN  /\ lat' = newlat
           /\ lon' = newlon
           /\ quivers' = Append(quivers, [x |-> newlon, y |-> newlat, u |-> u, v |-> v,
                                          color |-> colors[zi], of |-> CurLabel,
                                          pair |-> zi])
           /\ lons' = Append(lons, newlon)
           /\ lats' = Append(lats, newlat)
    /\ zi' = zi + 1
    /\ UNCHANGED <<pc, raised, collectVars, valid_casts, Cdata, Cdata_interpolated, ci,
                   indices, colors, xlim, ylim>>

\* lines 127-132
Bottom ==
    /\ pc = "highlight" /\ ci <= Len(Cdata_interpolated) /\ zi > ZipLen
    /\ ValidIndices(CurFrame) # {}
    /\ lon # Unbound /\ lat # Unbound
    /\ LET last_valid_index == LastIndex(ValidIndices(CurFrame))
       IN  quivers' = Append(quivers,
                [x |-> BottomPos[1], y |-> BottomPos[2],
                 u |-> SeriesAt(CurFrame.u_int, last_valid_index),
                 v |-> SeriesAt(CurFrame.v_int, last_valid_index),
                 color |-> "black", of |-> CurLabel, pair |-> 0])
    /\ lons' = Append(lons, BottomPos[1])
    /\ lats' = Append(lats, BottomPos[2])
    /\ ci' = ci + 1 /\ zi' = 1
    /\ UNCHANGED <<pc, raised, collectVars, valid_casts, Cdata, Cdata_interpolated,
                   indices, colors, lon, lat, xlim, ylim>>

\* line 127: .index[-1] of an empty selection raises IndexError
BottomIndexError ==
    /\ pc = "highlight" /\ ci <= Len(Cdata_interpolated) /\ zi > ZipLen
    /\ ValidIndices(CurFrame) = {}
    /\ pc' = "raised"
    /\ raised' = "IndexError"
    /\ UNCHANGED <<collectVars, valid_casts, Cdata, Cdata_interpolated, ci, plotVars>>

\* line 130: lon and lat are read before any assignment
BottomUnbound ==
    /\ pc = "highlight" /\ ci <= Len(Cdata_interpolated) /\ zi > ZipLen
    /\ ValidIndices(CurFrame) # {}
    /\ lon = Unbound
    /\ pc' = "raised"
    /\ raised' = "UnboundLocalError"
    /\ UNCHANGED <<collectVars, valid_casts, Cdata, Cdata_interpolated, ci, plotVars>>

\* lines 134-142: the axis limits fitted to the plotted positions
Limits ==
    /\ pc = "highlight" /\ ci > Len(Cdata_interpolated)
    /\ lons # <<>>
    /\ xlim' = <<FSub(SeqMin(lons), Frac(1, 5)), FAdd(SeqMax(lons), Frac(1, 5))>>
    /\ ylim' = <<FSub(SeqMin(lats), Frac(1, 5)), FAdd(SeqMax(lats), Frac(1, 5))>>
    /\ pc' = "shown"
    /\ UNCHANGED <<raised, collectVars, valid_casts, Cdata, Cdata_interpolated, ci,
                   indices, colors, zi, lon, lat, lons, lats, quivers>>

\* line 139: min() of an empty list raises ValueError
LimitsValueError ==
    /\ pc = "highlight" /\ ci > Len(Cdata_interpolated)
    /\ lons = <<>>
    /\ pc' = "raised"
    /\ raised' = "ValueError"
    /\ UNCHANGED <<collectVars, valid_casts, Cdata, Cdata_interpolated, ci, plotVars>>

\* the arguments of plot_adcp_data: casts that process_casts has interpolated, and
\* indices that are labels of the Series or lie beyond its end
PlotProfiles ==
    {pr \in ProfilesOver({Frac(3, 2), Flt(2), Flt(4)}, {Flt(1)}, {Flt(1)}, 1)
            \cup ProfilesOver({Flt(2), Flt(4)}, {Flt(1)}, VVals, 2) :
        ~InterpolateRaises(pr)}

CastPositions == <<<<Frac(-227, 2), Flt(-22)>>, <<Frac(-571, 5), Flt(-21)>>,
                   <<Flt(-113), Flt(-20)>>, <<Flt(-112), Flt(-23)>>>>

PlotCasts(n) ==
    {[i \in 1..n |-> <<Label(i + 1), Dr(CastPositions[i], prs[i])>>] :
        prs \in [1..n -> PlotProfiles]}

IndexVals == {0, Len(full_depth_range)}

Palette == <<"red", "blue", "green">>

InitPlot ==
    /\ pc = "plot" /\ raised = "none"
    /\ last_cast = 0 /\ files = <<>> /\ cast = 1
    /\ valid_casts \in UNION {PlotCasts(n) : n \in 0..MaxRetained}
    /\ Cdata = <<>>
    /\ Cdata_interpolated = ProcessCasts(valid_casts)
    /\ ci = 1 /\ zi = 1
    /\ indices \in UNION {[1..n -> IndexVals] : n \in 0..MaxIndices}
    /\ colors = [i \in 1..Len(indices) |-> Palette[((i - 1) % Len(Palette)) + 1]]
    /\ lon = Unbound /\ lat = Unbound
    /\ lons = <<>> /\ lats = <<>> /\ quivers = <<>>
    /\ xlim = Unbound /\ ylim = Unbound

NextPlot ==
    \/ PlotStart \/ HighlightSkip \/ HighlightDraw
    \/ Bottom \/ BottomIndexError \/ BottomUnbound \/ Limits \/ LimitsValueError

SpecPlot == InitPlot /\ [][NextPlot]_vars

(***************************************************************************)
(* Claims about get_valid_casts (SpecCollect).                             *)
(***************************************************************************)
Loads(i) == files[i].kind = "ok"

\* C1: after get_valid_casts(N), for every i in 1..N whose file loads, Label(i) is a
\* key of the result iff the cast's longitude is not 0 and i # 1; cast 1 and a cast
\* of longitude 0 are never retained, and no key lies outside 1..N.
C1_RetainedIff ==
    /\ pc = "collected" =>
          \A i \in 1..last_cast :
              Loads(i) =>
                 (Label(i) \in Keys(valid_casts)
                    <=> (files[i].dr.lon # Flt(0) /\ i # 1))
    /\ Label(1) \notin Keys(valid_casts)
    /\ \A i \in 1..last_cast :
          (Loads(i) /\ files[i].dr.lon = Flt(0)) => Label(i) \notin Keys(valid_casts)
    /\ Keys(valid_casts) \subseteq {Label(i) : i \in 1..last_cast}
    /\ \A n \in 1..Len(valid_casts) :
          \E i \in 1..last_cast :
              Loads(i) /\ valid_casts[n] = <<Label(i), files[i].dr>>

C1_Witness ==
    /\ pc = "collected" /\ last_cast >= 3
    /\ Loads(1) /\ files[1].dr.lon # Flt(0)
    /\ \E i \in 2..last_cast : Loads(i) /\ files[i].dr.lon = Flt(0)
    /\ \E i \in 2..last_cast : Label(i) \in Keys(valid_casts)

Swallowed == {"FileNotFoundError", "KeyError"}

Source(n) == DictGet(valid_casts, Cdata_interpolated[n][1])
Interpolated(n) == Cdata_interpolated[n][2]
HasJointlyValid(dr) == \E k \in 1..Len(dr.p) : dr.u[k] # NaN /\ dr.v[k] # NaN
Grid(i) == Flt(2 * i)

\* C3: for every cast with a jointly-valid sample, u_int and v_int have the length of
\* the grid, and both are missing at every grid depth strictly greater than
\* max_depth, also when max_depth is not a grid value.
C3_MissingBeyondMaxDepth ==
    \A n \in 1..Len(Cdata_interpolated) :
        HasJointlyValid(Source(n)) =>
           /\ Len(Interpolated(n).u_int) = Len(Interpolated(n).p_int)
           /\ Len(Interpolated(n).v_int) = Len(Interpolated(n).p_int)
           /\ \A i \in 1..Len(Interpolated(n).p_int) :
                 FLt(max_depth(Source(n)), Interpolated(n).p_int[i]) =>
                    /\ Interpolated(n).u_int[i] = NaN
                    /\ Interpolated(n).v_int[i] = NaN

\* C4 as stated: every InterpolatedCast carries the grid 2, 4, ..., 2574, of
\* length 1288.
C4_GridOf1288 ==
    \A n \in 1..Len(Cdata_interpolated) :
        /\ Len(Interpolated(n).p_int) = 1288
        /\ Interpolated(n).p_int[1] = Flt(2)
        /\ Interpolated(n).p_int[Len(Interpolated(n).p_int)] = Flt(2574)

\* C4 as amended: every InterpolatedCast carries the same grid 2, 4, ..., 2574, of
\* length 1287.
C4_GridOf1287 ==
    \A n \in 1..Len(Cdata_interpolated) :
        Interpolated(n).p_int = [i \in 1..1287 |-> Grid(i)]

C4_Witness ==
    /\ pc = "processed" /\ Len(Cdata_interpolated) = 2
    /\ Interpolated(1).p_int[1287] = Flt(2574)
    /\ Interpolated(2).p_int = Interpolated(1).p_int

\* the value at depth d of the line through (p[a], f[a]) and (p[b], f[b])
Linear(d, pp, f, a, b) ==
    FAdd(f[a], FMul(FDiv(FSub(f[b], f[a]), FSub(pp[b], pp[a])), FSub(d, pp[a])))

\* samples a < b with f present at both and missing at every sample between them,
\* of which there is at least one, and d strictly between their pressures
AcrossMissing(d, pp, f, a, b) ==
    /\ a + 1 < b /\ f[a] # NaN /\ f[b] # NaN
    /\ \A k \in (a + 1)..(b - 1) : f[k] = NaN
    /\ FLt(pp[a], d) /\ FLt(d, pp[b])

SkipsMissing(d, pp, f, out) ==
    \A a \in 1..Len(pp), b \in 1..Len(pp) :
        AcrossMissing(d, pp, f, a, b) => out = Linear(d, pp, f, a, b)

BlockedByMissing(d, pp, f, out) ==
    /\ \A a \in 1..Len(pp), b \in 1..Len(pp) :
          AcrossMissing(d, pp, f, a, b) => out = NaN
    /\ \A a \in 1..(Len(pp) - 1) :
          (f[a] # NaN /\ f[a + 1] # NaN /\ FLt(pp[a], d) /\ FLt(d, pp[a + 1]))
             => out = Linear(d, pp, f, a, a + 1)

WithinMaxDepth(n, i) == ~FLt(max_depth(Source(n)), Grid(i))

\* C5 as stated: at a grid depth d <= max_depth between two present samples with only
\* missing samples between them, u_int (v_int) is the linear interpolation between
\* those two present samples.
C5_InterpolatesAcrossMissing ==
    \A n \in 1..Len(Cdata_interpolated) :
        \A i \in 1..Len(Interpolated(n).p_int) :
            WithinMaxDepth(n, i) =>
               /\ SkipsMissing(Grid(i), Source(n).p, Source(n).u, Interpolated(n).u_int[i])
               /\ SkipsMissing(Grid(i), Source(n).p, Source(n).v, Interpolated(n).v_int[i])

\* C5 as amended: a missing source sample blocks interpolation.  At a grid depth
\* d <= max_depth strictly between two present samples with only missing samples
\* between them, u_int (v_int) is the missing-value marker; it is the linear
\* interpolation only strictly between two consecutive samples that are both present.
C5_MissingBlocksInterpolation ==
    \A n \in 1..Len(Cdata_interpolated) :
        \A i \in 1..Len(Interpolated(n).p_int) :
            WithinMaxDepth(n, i) =>
               /\ BlockedByMissing(Grid(i), Source(n).p, Source(n).u, Interpolated(n).u_int[i])
               /\ BlockedByMissing(Grid(i), Source(n).p, Source(n).v, Interpolated(n).v_int[i])

\* pressures [2, 4, 6], u = [1, missing, 3], v all present: u_int is missing at depth 4
C5_Witness ==
    /\ pc = "processed" /\ Len(Cdata_interpolated) = 1
    /\ Source(1).p = <<Flt(2), Flt(4), Flt(6)>>
    /\ Source(1).u = <<Flt(1), NaN, Flt(3)>>
    /\ Source(1).v = <<Flt(1), Flt(1), Flt(1)>>
    /\ Interpolated(1).u_int[1] = Flt(1)
    /\ Interpolated(1).u_int[2] = NaN
    /\ Interpolated(1).u_int[3] = Flt(3)
    /\ Interpolated(1).v_int[2] = Flt(1)

\* C8: a cast with no sample at which u and v are both present never gets an
\* InterpolatedCast: the call ends in a raised error (or returns a mapping without it).
C8_NoCastWithoutMaxDepth ==
    \A n \in 1..Len(valid_casts) :
        ~HasJointlyValid(valid_casts[n][2]) =>
           valid_casts[n][1] \notin Keys(Cdata_interpolated)

C8_Witness ==
    /\ pc = "raised" /\ raised = "ValueError"
    /\ Len(valid_casts) = 2 /\ Len(Cdata_interpolated) = 1
    /\ HasJointlyValid(valid_casts[1][2])
    /\ ~HasJointlyValid(valid_casts[2][2])
    /\ Len(valid_casts[2][2].p) > 0

\* C10: every InterpolatedCast that process_casts returns has a grid index at which
\* u_int is present.
C10_SomeUPresent ==
    \A n \in 1..Len(Cdata_interpolated) :
        \E i \in 1..Len(Interpolated(n).u_int) : Interpolated(n).u_int[i] # NaN

(***************************************************************************)
(* Claims about plot_adcp_data (SpecPlot).                                 *)
(***************************************************************************)
\* the iteration of cast n on pair z of zip(indices, colors) is over
Processed(n, z) ==
    /\ pc # "plot" /\ n \in 1..Len(Cdata_interpolated) /\ z \in 1..ZipLen
    /\ n < ci \/ (n = ci /\ z < zi)

OwnLon(label) == DictGet(valid_casts, label).lon
OwnLat(label) == DictGet(valid_casts, label).lat

HighlightDrawn(n, z) ==
    \E k \in 1..Len(quivers) :
        /\ quivers[k].of = Cdata_interpolated[n][1] /\ quivers[k].pair = z
        /\ quivers[k].color = colors[z]
        /\ quivers[k].x = OwnLon(quivers[k].of) /\ quivers[k].y = OwnLat(quivers[k].of)

BothPresent(n, ind) ==
    /\ 0 <= ind /\ ind < Len(Interpolated(n).u_int)
    /\ Interpolated(n).u_int[ind + 1] # NaN
    /\ Interpolated(n).v_int[ind + 1] # NaN

\* C6: for every cast and (index, color) pair a highlight vector is drawn at the
\* cast's own position in that color iff the index is within bounds and u_int and
\* v_int are both present there; otherwise no vector is drawn for the pair.
C6_DrawnIffBothPresent ==
    \A n \in 1..Len(Cdata_interpolated), z \in 1..ZipLen :
        Processed(n, z) => (HighlightDrawn(n, z) <=> BothPresent(n, indices[z]))

\* C7: with no cast at all, plot_adcp_data ends in the error of a guard ("no data"),
\* never in the ValueError of min() / max() over the empty list of positions.
C7_EmptyIsGuarded ==
    (Len(Cdata_interpolated) = 0 /\ Len(valid_casts) = 0 /\ pc \notin {"plot", "highlight"})
        => (pc = "raised" /\ raised = "NoDataError")

IsBottom(q) == q.pair = 0

\* C9: the bottom-most vector of a cast is drawn at the lon/lat left by the most
\* recent highlight iteration that was not skipped, of this cast or of an earlier
\* one, and that position is what is appended to lons and lats.
C9_BottomAtLastHighlightPosition ==
    /\ Len(lons) = Len(quivers) /\ Len(lats) = Len(quivers)
    /\ \A k \in 1..Len(quivers) : lons[k] = quivers[k].x /\ lats[k] = quivers[k].y
    /\ \A k \in 1..Len(quivers) :
          IsBottom(quivers[k]) =>
             \E j \in 1..(k - 1) :
                 /\ ~IsBottom(quivers[j])
                 /\ \A m \in (j + 1)..(k - 1) : IsBottom(quivers[m])
                 /\ quivers[k].x = quivers[j].x /\ quivers[k].y = quivers[j].y

\* a cast all of whose highlight indices were skipped, its bottom-most vector drawn
\* at the position of the earlier cast
C9_Witness ==
    /\ pc = "shown" /\ Len(quivers) >= 3
    /\ \E k \in 2..Len(quivers) :
          /\ IsBottom(quivers[k]) /\ IsBottom(quivers[k - 1])
          /\ quivers[k].of # quivers[k - 1].of
          /\ quivers[k].x # OwnLon(quivers[k].of)
          /\ quivers[k].x = OwnLon(quivers[k - 1].of)
          /\ lons[k] = quivers[k].x

====
